---- MODULE Spec2Model ----
(***************************************************************************)
(* Kelly-criterion bet sizing form (bet_sizing_app.py).                    *)
(*                                                                         *)
(* The Python floats of the program are modelled as exact rationals        *)
(* <<numerator, denominator>> in lowest terms with denominator > 0; the    *)
(* rounding of binary64 arithmetic is not modelled.  A Python exception is *)
(* modelled as the value ZeroDivisionError, which every caller hands on.   *)
(***************************************************************************)
EXTENDS Integers, Sequences, FiniteSets, TLC

\* ------------------------------------------------------------------ bounds
MaxMlUnits == 1       \* moneylines entered: multiples of 150 up to +-150
ProbGrid == 5         \* probabilities entered: i/ProbGrid, i in 0..ProbGrid
MaxKUnits == 1        \* Kelly multipliers entered: 0, 1, .. MaxKUnits
MaxBankUnits == 1     \* bankrolls entered: multiples of 2000 up to 2000
MaxFracHalves == 2    \* max bet fractions entered: 0, 1/2, .. MaxFracHalves/2
MaxFactor == 3        \* bankroll scale factors tried: i/2, i in 1..2*MaxFactor

\* ------------------------------------------------- float arithmetic (exact)
Abs(i) == IF i < 0 THEN -i ELSE i

RECURSIVE GCD(_, _)
GCD(a, b) == IF b = 0 THEN a ELSE GCD(b, a % b)

Norm(n, d) == LET g == GCD(Abs(n), d) IN <<n \div g, d \div g>>

Zero == <<0, 1>>
One == <<1, 1>>
Hundred == <<100, 1>>

ZeroDivisionError == <<"ZeroDivisionError">>
None == <<>>

RAdd(x, y) == Norm(x[1] * y[2] + y[1] * x[2], x[2] * y[2])
RSub(x, y) == Norm(x[1] * y[2] - y[1] * x[2], x[2] * y[2])
RMul(x, y) == Norm(x[1] * y[1], x[2] * y[2])
RDiv(x, y) ==
    IF y[1] = 0 THEN ZeroDivisionError
    ELSE IF y[1] > 0 THEN Norm(x[1] * y[2], x[2] * y[1])
    ELSE Norm(-(x[1] * y[2]), x[2] * (-y[1]))
RLt(x, y) == x[1] * y[2] < y[1] * x[2]
RLe(x, y) == x[1] * y[2] <= y[1] * x[2]
RAbs(x) == <<Abs(x[1]), x[2]>>
\* Python's max and min return the first argument on a tie
RMax(x, y) == IF RLt(x, y) THEN y ELSE x
RMin(x, y) == IF RLt(y, x) THEN y ELSE x

\* ------------------------------------------------------------ the functions
american_to_net_odds_NoAbs(american_ml) ==
    IF RLt(Zero, american_ml) THEN RDiv(american_ml, Hundred)
    ELSE RDiv(Hundred, american_ml)

american_to_net_odds_ZeroAsEven(american_ml) ==
    IF RLt(Zero, american_ml) THEN RDiv(american_ml, Hundred)
    ELSE IF american_ml = Zero THEN One
    ELSE RDiv(Hundred, RAbs(american_ml))

american_to_net_odds(american_ml) ==
    IF RLt(Zero, american_ml) THEN RDiv(american_ml, Hundred)
    ELSE RDiv(Hundred, RAbs(american_ml))

kelly_fraction_NoClamp(prob, net_odds) ==
    RSub(prob, RDiv(RSub(One, prob), net_odds))

kelly_fraction_SignSlip(prob, net_odds) ==
    LET fraction == RAdd(prob, RDiv(RSub(One, prob), net_odds))
    IN  RMax(Zero, fraction)

kelly_fraction_EdgeOff(prob, net_odds) ==
    LET fraction == RSub(prob, RDiv(RSub(One, prob), RAdd(net_odds, One)))
    IN  RMax(Zero, fraction)

kelly_fraction(prob, net_odds) ==
    LET fraction == RSub(prob, RDiv(RSub(One, prob), net_odds))
    IN  RMax(Zero, fraction)

recommended_bet_size_NoCap(prob, american_ml, fraction_kelly, bank, max_bet_fraction) ==
    LET b == american_to_net_odds(american_ml)
    IN  IF b = ZeroDivisionError THEN ZeroDivisionError
        ELSE LET kf == kelly_fraction(prob, b)
                 raw_bet == RMul(RMul(fraction_kelly, kf), bank)
             IN  <<raw_bet, kf>>

recommended_bet_size_ScaledKf(prob, american_ml, fraction_kelly, bank, max_bet_fraction) ==
    LET b == american_to_net_odds(american_ml)
    IN  IF b = ZeroDivisionError THEN ZeroDivisionError
        ELSE LET kf == kelly_fraction(prob, b)
                 raw_bet == RMul(RMul(fraction_kelly, kf), bank)
                 cap == RMul(max_bet_fraction, bank)
             IN  <<RMin(raw_bet, cap), RMul(fraction_kelly, kf)>>

recommended_bet_size_AddBank(prob, american_ml, fraction_kelly, bank, max_bet_fraction) ==
    LET b == american_to_net_odds(american_ml)
    IN  IF b = ZeroDivisionError THEN ZeroDivisionError
        ELSE LET kf == kelly_fraction(prob, b)
                 raw_bet == RAdd(RMul(fraction_kelly, kf), bank)
                 cap == RMul(max_bet_fraction, bank)
             IN  <<RMin(raw_bet, cap), kf>>

recommended_bet_size(prob, american_ml, fraction_kelly, bank, max_bet_fraction) ==
    LET b == american_to_net_odds(american_ml)
    IN  IF b = ZeroDivisionError THEN ZeroDivisionError
        ELSE LET kf == kelly_fraction(prob, b)
                 raw_bet == RMul(RMul(fraction_kelly, kf), bank)
                 cap == RMul(max_bet_fraction, bank)
             IN  <<RMin(raw_bet, cap), kf>>

p_away_Same(prob_home) == prob_home

p_away(prob_home) == RSub(One, prob_home)

\* ------------------------------------------------------ the form's widgets
\* values a user can leave in each number_input: its default, or a typed
\* value inside the widget's min_value / max_value
MoneylineInputs ==
    {<<-110, 1>>} \cup {<<150 * i, 1>> : i \in (-MaxMlUnits)..MaxMlUnits}
FractionKInputs == {<<1, 2>>} \cup {<<i, 1>> : i \in 0..MaxKUnits}
ProbInputs == {<<1, 2>>} \cup {Norm(i, ProbGrid) : i \in 0..ProbGrid}
BankInputs == {<<-2000, 1>>} \cup {<<2000 * i, 1>> : i \in 0..MaxBankUnits}
MaxBetFracInputs == {<<1, 10>>} \cup {Norm(i, 2) : i \in 0..MaxFracHalves}
Factors == {Norm(i, 2) : i \in 1..(2 * MaxFactor)}

VARIABLES home_ml, away_ml, fraction_k, model_prob_home, morning_bank,
          max_bet_frac, shown, home_bet, home_kf, away_bet, away_kf

inputs == <<home_ml, away_ml, fraction_k, model_prob_home, morning_bank,
            max_bet_frac>>
vars == <<home_ml, away_ml, fraction_k, model_prob_home, morning_bank,
          max_bet_frac, shown, home_bet, home_kf, away_bet, away_kf>>

Init ==
    /\ home_ml = <<-110, 1>>
    /\ away_ml = <<-110, 1>>
    /\ fraction_k = One
    /\ model_prob_home = <<1, 2>>
    /\ morning_bank = <<2000, 1>>
    /\ max_bet_frac = <<1, 10>>
    /\ shown = "form"
    /\ home_bet = None /\ home_kf = None
    /\ away_bet = None /\ away_kf = None

\* a widget change reruns the script with the button unpressed: the form is
\* drawn again and nothing below `if st.button(...)` runs
Rerun ==
    /\ shown' = "form"
    /\ home_bet' = None /\ home_kf' = None
    /\ away_bet' = None /\ away_kf' = None

SetHomeMl ==
    /\ \E v \in MoneylineInputs : home_ml' = v
    /\ Rerun
    /\ UNCHANGED <<away_ml, fraction_k, model_prob_home, morning_bank, max_bet_frac>>

SetAwayMl ==
    /\ \E v \in MoneylineInputs : away_ml' = v
    /\ Rerun
    /\ UNCHANGED <<home_ml, fraction_k, model_prob_home, morning_bank, max_bet_frac>>

SetFractionK ==
    /\ \E v \in FractionKInputs : fraction_k' = v
    /\ Rerun
    /\ UNCHANGED <<home_ml, away_ml, model_prob_home, morning_bank, max_bet_frac>>

SetModelProbHome ==
    /\ \E v \in ProbInputs : model_prob_home' = v
    /\ Rerun
    /\ UNCHANGED <<home_ml, away_ml, fraction_k, morning_bank, max_bet_frac>>

SetMorningBank ==
    /\ \E v \in BankInputs : morning_bank' = v
    /\ Rerun
    /\ UNCHANGED <<home_ml, away_ml, fraction_k, model_prob_home, max_bet_frac>>

SetMaxBetFrac ==
    /\ \E v \in MaxBetFracInputs : max_bet_frac' = v
    /\ Rerun
    /\ UNCHANGED <<home_ml, away_ml, fraction_k, model_prob_home, morning_bank>>

\* the button: both sides are computed, then all four numbers are written;
\* an exception in either call ends the run before anything is written
Calculate ==
    LET home == recommended_bet_size(model_prob_home, home_ml, fraction_k,
                                     morning_bank, max_bet_frac)
        away == recommended_bet_size(p_away(model_prob_home), away_ml, fraction_k,
                                     morning_bank, max_bet_frac)
    IN  /\ IF home = ZeroDivisionError \/ away = ZeroDivisionError
           THEN /\ shown' = "exception"
                /\ home_bet' = None /\ home_kf' = None
                /\ away_bet' = None /\ away_kf' = None
           ELSE /\ shown' = "results"
                /\ home_bet' = home[1] /\ home_kf' = home[2]
                /\ away_bet' = away[1] /\ away_kf' = away[2]
        /\ UNCHANGED inputs

Next ==
    \/ SetHomeMl
    \/ SetAwayMl
    \/ SetFractionK
    \/ SetModelProbHome
    \/ SetMorningBank
    \/ SetMaxBetFrac
    \/ Calculate

Spec == Init /\ [][Next]_vars

\* ------------------------------------------------------------- properties
RPos(x) == RLt(Zero, x)
calculated == shown = "results"
cap_now == RMul(max_bet_frac, morning_bank)

\* the two calls of one click: <<prob, moneyline, stake, raw Kelly>>
Sides == {<<model_prob_home, home_ml, home_bet, home_kf>>,
          <<RSub(One, model_prob_home), away_ml, away_bet, away_kf>>}

\* net odds and break-even probability of a nonzero moneyline n/d, written
\* out in integers: n/(100 d) and 100 d/(n + 100 d) for n > 0,
\* 100 d/|n| and |n|/(|n| + 100 d) for n < 0
NetOddsOf(ml) ==
    IF ml[1] > 0 THEN Norm(ml[1], 100 * ml[2]) ELSE Norm(100 * ml[2], -ml[1])
BreakEvenOf(ml) ==
    IF ml[1] > 0 THEN Norm(100 * ml[2], ml[1] + 100 * ml[2])
    ELSE Norm(-ml[1], 100 * ml[2] - ml[1])

\* the docstring's form of the Kelly fraction, ((b + 1) p - 1) / b, clamped
DocKelly(prob, ml) ==
    LET b == NetOddsOf(ml)
        f == RDiv(RSub(RMul(RAdd(b, One), prob), One), b)
    IN  IF RLt(f, Zero) THEN Zero ELSE f

ValidInputs ==
    /\ RLe(Zero, model_prob_home) /\ RLe(model_prob_home, One)
    /\ home_ml # Zero /\ away_ml # Zero
    /\ RLe(Zero, fraction_k)
    /\ RLe(Zero, morning_bank)
    /\ RLe(Zero, max_bet_frac) /\ RLe(max_bet_frac, One)

\* C1: for valid inputs the stake of either side never exceeds
\* max_bet_fraction * bankroll
C1_CapNeverExceeded ==
    (calculated /\ ValidInputs) =>
        /\ RLe(home_bet, cap_now)
        /\ RLe(away_bet, cap_now)

\* C1 witness: a valid calculation in which the cap binds (the scaled stake
\* is above the cap and the stake shown is the cap)
C1_Witness ==
    /\ calculated /\ ValidInputs
    /\ RLt(cap_now, RMul(RMul(fraction_k, home_kf), morning_bank))
    /\ home_bet = cap_now

\* C2: for valid inputs the stake of either side is >= 0
C2_StakeNonNegative ==
    (calculated /\ ValidInputs) =>
        /\ RLe(Zero, home_bet)
        /\ RLe(Zero, away_bet)

\* C2 witness: a valid calculation with a positive bankroll and multiplier
\* where the home side has a negative edge and its stake is 0
C2_Witness ==
    /\ calculated /\ ValidInputs
    /\ RPos(morning_bank) /\ RPos(fraction_k) /\ RPos(max_bet_frac)
    /\ RLt(model_prob_home, BreakEvenOf(home_ml))
    /\ home_bet = Zero

\* C3: american_to_net_odds is m/100 for m > 0, 100/|m| for m < 0, and
\* strictly positive for every nonzero moneyline
C3_NetOdds ==
    (shown # "form") =>
        \A ml \in {home_ml, away_ml} :
            /\ ml[1] > 0 => american_to_net_odds(ml) = Norm(ml[1], 100 * ml[2])
            /\ ml[1] < 0 => american_to_net_odds(ml) = Norm(100 * ml[2], -ml[1])
            /\ ml[1] # 0 => /\ american_to_net_odds(ml) # ZeroDivisionError
                            /\ RPos(american_to_net_odds(ml))

\* C3 witness: a calculation with a positive and a negative moneyline
C3_Witness ==
    /\ calculated
    /\ home_ml[1] > 0 /\ away_ml[1] < 0

\* C4: the raw Kelly fraction is exactly 0 whenever prob <= 1/(1+b)
C4_NoEdgeNoBet ==
    calculated =>
        \A s \in Sides : RLe(s[1], BreakEvenOf(s[2])) => s[4] = Zero

\* C4 witness: a calculation exactly at break-even on the home side (raw
\* Kelly 0) and above break-even on the away side (raw Kelly positive)
C4_Witness ==
    /\ calculated
    /\ model_prob_home = BreakEvenOf(home_ml) /\ home_kf = Zero
    /\ RLt(BreakEvenOf(away_ml), RSub(One, model_prob_home)) /\ RPos(away_kf)

\* C5 as stated: the raw Kelly fraction lies in [0, 1)
C5_HalfOpenRange ==
    calculated =>
        \A s \in Sides : RLe(Zero, s[4]) /\ RLt(s[4], One)

\* C5 amended: the raw Kelly fraction lies in [0, 1]; it is below 1 when
\* prob < 1 and is exactly 1 when prob = 1
C5_ClosedRange ==
    calculated =>
        \A s \in Sides :
            /\ RLe(Zero, s[4]) /\ RLe(s[4], One)
            /\ RLt(s[1], One) => RLt(s[4], One)
            /\ s[1] = One => s[4] = One

\* C5 witness: a calculation with prob = 1 on the home side, raw Kelly 1
C5_Witness ==
    /\ calculated
    /\ model_prob_home = One /\ home_kf = One
    /\ away_kf = Zero

C7_InvalidInputsRejected ==
    (\/ RLt(model_prob_home, Zero) \/ RLt(One, model_prob_home)
     \/ RLt(morning_bank, Zero)
     \/ RLt(max_bet_frac, Zero)) =>
        /\ shown # "results"
        /\ home_bet = None /\ home_kf = None
        /\ away_bet = None /\ away_kf = None

\* C8: the pair returned is (min(multiplier * rawKelly * bankroll,
\* maxBetFraction * bankroll), rawKelly); rawKelly is the Kelly fraction of
\* prob and the moneyline's net odds whatever multiplier, bankroll and cap
\* are, and the stake is the scaled stake whenever that is not above the cap
C8_StakeAndRawKelly ==
    calculated =>
        \A s \in Sides :
            LET scaled == RMul(RMul(fraction_k, s[4]), morning_bank)
            IN  /\ s[4] = DocKelly(s[1], s[2])
                /\ RLe(scaled, cap_now) => s[3] = scaled
                /\ RLt(cap_now, scaled) => s[3] = cap_now
                /\ \A k \in FractionKInputs, bk \in BankInputs,
                      mf \in MaxBetFracInputs :
                      recommended_bet_size(s[1], s[2], k, bk, mf)[2] = s[4]

\* C8 witness: half Kelly on a positive edge, the stake is the scaled stake
\* and strictly below the cap
C8_Witness ==
    /\ calculated
    /\ fraction_k = <<1, 2>> /\ RPos(home_kf)
    /\ home_bet = RMul(RMul(fraction_k, home_kf), morning_bank)
    /\ RLt(home_bet, cap_now)

\* C9: with the stake below the cap, multiplying the bankroll by k > 0
\* multiplies the stake by k and leaves it below the (scaled) cap
C9_StakeProportionalToBankroll ==
    calculated =>
        \A s \in Sides :
            RLt(s[3], cap_now) =>
                \A k \in Factors :
                    LET r == recommended_bet_size(s[1], s[2], fraction_k,
                                 RMul(k, morning_bank), max_bet_frac)
                    IN  /\ r[1] = RMul(k, s[3])
                        /\ RLt(r[1], RMul(max_bet_frac, RMul(k, morning_bank)))

\* C9 witness: a positive stake strictly below the cap
C9_Witness ==
    /\ calculated
    /\ RPos(home_bet) /\ RLt(home_bet, cap_now)

\* C10: when the two moneylines carry no arbitrage (the break-even
\* probabilities sum to at least 1), at most one raw Kelly fraction and at
\* most one stake is strictly positive
NoArbitrage == RLe(One, RAdd(BreakEvenOf(home_ml), BreakEvenOf(away_ml)))

C10_AtMostOneSide ==
    (calculated /\ NoArbitrage) =>
        /\ ~(RPos(home_kf) /\ RPos(away_kf))
        /\ ~(RPos(home_bet) /\ RPos(away_bet))

\* C10 witness: no arbitrage, the home side has an edge and a stake, the
\* away side has neither
C10_Witness ==
    /\ calculated /\ NoArbitrage
    /\ RPos(home_kf) /\ RPos(home_bet)
    /\ away_kf = Zero /\ away_bet = Zero

====
